---- MODULE Spec2Model ----
(***************************************************************************)
(* canonicalurl.js (lrei/canonicalurl): the URL resolution pipeline of one *)
(* worker (fetchCanonical -> headRequest -> fetchContent -> reply) and the *)
(* cluster master that keeps the worker pool (startServerMaster).          *)
(*                                                                         *)
(* Five specifications:                                                    *)
(*   Spec        one worker serving requests through the pipeline          *)
(*   SpecConc    Spec with the events of the other requests in flight      *)
(*   SpecMaster  the master process and its worker pool                    *)
(*   SpecPolicy  checkDomainLists applied to every domain and list pair    *)
(*   SpecLoader  loadDomainList applied to the text of a list file         *)
(***************************************************************************)
EXTENDS Integers, Sequences, FiniteSets, TLC

VARIABLES
  WHITELIST,    \* global WHITELIST: domain list, or no list (null)
  SHORTLIST,    \* global SHORTLIST: domain list, or no list (null)
  whitelistFile, \* the file at nconf 'whitelist' as loadFilterLists found it
  shortlistFile, \* the file at nconf 'shortlist' as loadFilterLists found it
  doGet,        \* startServerWorker: var doGet = !nconf.get('noget')
  inList,       \* the implicit global `inList` assigned in headRequest
  pc,           \* where the current request is: idle, head, get, done, crashed
  data,         \* the `data` object of the current request
  replies,      \* number of reply() calls made for the current request
  headIssued,   \* number of HEAD requests issued for the current request
  getIssued,    \* number of GET requests issued for the current request
  headRes,      \* what the upstream answered to the HEAD
  getRes,       \* what the upstream answered to the GET
  served,       \* requests this worker has accepted so far
  closedAt,     \* where the request was when its client closed: no, head, get
  started,      \* master: startServerMaster has run
  workers,      \* master: pids of the live worker processes
  listening,    \* master: pids of live workers whose server is listening
  LISTENERS,    \* master: the global LISTENERS array
  exitQ,        \* master: 'exit' events emitted and not yet handled
  nextPid,      \* master: pid the next forked process gets
  readyLogged,  \* master: times 'All Workers listening' was logged
  polArg,       \* policy check: the domain handed to checkDomainLists
  polOut,       \* policy check: <<>> before the call, <<result>> after it
  loadArg,      \* list loading: the text of the file handed to loadDomainList
  loadOut       \* list loading: <<>> before the call, <<list>> after it

listVars   == <<WHITELIST, SHORTLIST, whitelistFile, shortlistFile>>
pipeVars   == <<doGet, inList, pc, data, replies, headIssued, getIssued,
                headRes, getRes, served, closedAt>>
masterVars == <<started, workers, listening, LISTENERS, exitQ, nextPid,
                readyLogged>>
polVars    == <<polArg, polOut>>
loadVars   == <<loadArg, loadOut>>
vars       == <<listVars, pipeVars, masterVars, polVars, loadVars>>

-----------------------------------------------------------------------------
(* Bounds of the model *)

\* requests one worker accepts in a run
MaxRequests == 2
\* the configured maximum content size (nconf 'maxsize'), scaled down
MAXSIZE == 2
\* size of the worker pool (nconf 'numcpus')
numCpus == 3
\* worker exits the master sees in a run
MaxExits == 3
\* lines of a list file handed to loadDomainList on its own
MaxLines == 3

-----------------------------------------------------------------------------
(* JavaScript values and string functions *)

\* null and undefined
NULL == "<null>"

truthy(v) == v # NULL /\ v # ""

UpperChars == "ABCDEFGHIJKLMNOPQRSTUVWXYZ"
LowerChars == "abcdefghijklmnopqrstuvwxyz"

UpperSet == { SubSeq(UpperChars, i, i) : i \in 1..Len(UpperChars) }
lowerMap ==
  [c \in UpperSet |->
     LET i == CHOOSE j \in 1..Len(UpperChars) : SubSeq(UpperChars, j, j) = c
     IN  SubSeq(LowerChars, i, i)]

lowerChar(c) == IF c \in UpperSet THEN lowerMap[c] ELSE c

\* String.prototype.toLowerCase
RECURSIVE toLowerCase(_)
toLowerCase(s) ==
  IF s = "" THEN ""
  ELSE lowerChar(SubSeq(s, 1, 1)) \o toLowerCase(SubSeq(s, 2, Len(s)))

isSpace(c) == c = " " \/ c = "\t" \/ c = "\r" \/ c = "\n"

RECURSIVE trimStart(_)
trimStart(s) ==
  IF s # "" /\ isSpace(SubSeq(s, 1, 1)) THEN trimStart(SubSeq(s, 2, Len(s)))
  ELSE s

RECURSIVE trimEnd(_)
trimEnd(s) ==
  IF s # "" /\ isSpace(SubSeq(s, Len(s), Len(s)))
  THEN trimEnd(SubSeq(s, 1, Len(s) - 1))
  ELSE s

\* String.prototype.trim
trim(s) == trimEnd(trimStart(s))

\* String.prototype.indexOf: 0-based place of the first occurrence, or -1
strIndexOf(s, sub) ==
  LET hits == { i \in 0..(Len(s) - Len(sub)) : SubSeq(s, i + 1, i + Len(sub)) = sub }
  IN  IF hits = {} THEN -1 ELSE CHOOSE i \in hits : \A j \in hits : i <= j

\* Array.prototype.indexOf: 0-based place of the first strictly equal item, or -1
arrIndexOf(arr, v) ==
  LET hits == { i \in 1..Len(arr) : arr[i] = v }
  IN  IF hits = {} THEN -1 ELSE (CHOOSE i \in hits : \A j \in hits : i <= j) - 1

\* Array.prototype.splice(start) with one argument: drops every item from
\* `start` to the end; a negative start counts from the end
arrSplice(arr, start) ==
  LET from == IF start < 0
              THEN (IF Len(arr) + start < 0 THEN 0 ELSE Len(arr) + start)
              ELSE (IF start > Len(arr) THEN Len(arr) ELSE start)
  IN  SubSeq(arr, 1, from)

Range(arr) == { arr[i] : i \in 1..Len(arr) }

-----------------------------------------------------------------------------
(* Domain lists: a loaded array of names, or null when the file is missing *)

NoList     == [isNull |-> TRUE, items |-> <<>>]
List(arr)  == [isNull |-> FALSE, items |-> arr]

\* the whitelists and shortlists a worker may have loaded
WhitelistChoices ==
  { NoList, List(<<>>), List(<<"site.com">>), List(<<"site.com", "other.org">>) }
ShortlistChoices ==
  { NoList, List(<<>>), List(<<"short.ly">>) }

\* what fs finds at a configured path: no file, a file that cannot be read
\* (existsSync is true, readFileSync throws), or a readable file and its text
MissingFile    == [state |-> "missing", text |-> ""]
UnreadableFile == [state |-> "unreadable", text |-> ""]
File(text)     == [state |-> "ok", text |-> text]

\* the files a worker may find at the two configured paths
WhitelistFiles ==
  { MissingFile, UnreadableFile, File(""), File("Site.COM\n"),
    File("site.com\n# more\n\n Other.ORG \nSITE.com") }
ShortlistFiles ==
  { MissingFile, UnreadableFile, File(""), File("short.ly\n") }

\* String.prototype.split('\n')
RECURSIVE split(_)
split(s) ==
  LET i == strIndexOf(s, "\n")
  IN  IF i = -1 THEN <<s>>
      ELSE <<SubSeq(s, 1, i)>> \o split(SubSeq(s, i + 2, Len(s)))

\* Array.prototype.filter, given the set of the places it keeps
RECURSIVE filterAt(_, _, _)
filterAt(arr, keep, i) ==
  IF i > Len(arr) THEN <<>>
  ELSE (IF i \in keep THEN <<arr[i]>> ELSE <<>>) \o filterAt(arr, keep, i + 1)

\* line.toLowerCase().trim()
normalizeLine(line) == trim(toLowerCase(line))

\* a loader that keeps the duplicates
uniqueLines_KeepAll(arr) == arr

\* list.filter((value, index, self) => self.indexOf(value) === index)
uniqueLines(arr) ==
  filterAt(arr, { i \in 1..Len(arr) : arrIndexOf(arr, arr[i]) = i - 1 }, 1)

\* list.filter: keeps a line that is not empty and whose line[0] is not '#'
dropComments(arr) ==
  filterAt(arr, { i \in 1..Len(arr) :
                   arr[i] # "" /\ SubSeq(arr[i], 1, 1) # "#" }, 1)

\* the array loadDomainList builds from the text of a file
parseDomainList(s) ==
  LET lines == split(s)
      list  == [i \in 1..Len(lines) |-> normalizeLine(lines[i])]
  IN  dropComments(uniqueLines(list))

\* loadDomainList: null for a missing file, an exception of readFileSync for
\* an unreadable one, the parsed list otherwise
loadDomainList(file) ==
  IF file.state = "missing" THEN [throws |-> FALSE, list |-> NoList]
  ELSE IF file.state = "unreadable" THEN [throws |-> TRUE, list |-> NoList]
  ELSE [throws |-> FALSE, list |-> List(parseDomainList(file.text))]

\* loadFilterLists: loads the two globals in turn.  After the shortlist is
\* loaded it reads SHORTLIST.length under `if (WHITELIST)`, a TypeError when
\* a whitelist is loaded and the shortlist is null
loadFilterLists(wf, sf) ==
  LET w == loadDomainList(wf)
      h == loadDomainList(sf)
  IN  IF w.throws
      THEN [throws |-> TRUE, WHITELIST |-> NoList, SHORTLIST |-> NoList]
      ELSE IF h.throws
      THEN [throws |-> TRUE, WHITELIST |-> w.list, SHORTLIST |-> NoList]
      ELSE [throws |-> ~w.list.isNull /\ h.list.isNull,
            WHITELIST |-> w.list, SHORTLIST |-> h.list]

\* lines of a list file: names in mixed case and padded, a Windows line end,
\* comments, an indented comment, an empty line
LoaderLines ==
  { "site.com", " Site.COM ", "other.org\r", "# note", "\t#x", "" }

RECURSIVE joinLines(_)
joinLines(arr) ==
  IF Len(arr) = 0 THEN ""
  ELSE IF Len(arr) = 1 THEN arr[1]
  ELSE arr[1] \o "\n" \o joinLines(Tail(arr))

\* the texts readFileSync may return: up to MaxLines lines, '\n' between them
LoaderTexts ==
  { joinLines(ls) : ls \in UNION { [1..n -> LoaderLines] : n \in 1..MaxLines } }

\* loadDomainList(path) for a readable file with the text loadArg
applyLoadDomainList ==
  /\ loadOut = <<>>
  /\ \E r \in {loadDomainList(File(loadArg))} :
       loadOut' = <<r.list.items>>
  /\ UNCHANGED <<listVars, pipeVars, masterVars, polVars, loadArg>>

-----------------------------------------------------------------------------
(* URLs *)

\* inputs that are not web URIs; NULL is a request without a url parameter
InvalidInputs == { NULL, "not a url", "ftp://site.com/a" }

\* web URIs as the request library reports them (uri.href)
Hrefs == { "http://short.ly/x", "http://www.site.com/a", "http://site.com/",
           "http://other.org/b", "http://10.0.0.1/" }

\* web URIs a client may send; the href of "http://Site.COM" when it is not
\* redirected is "http://site.com/" (lower-cased host, path "/")
ValidInputs == Hrefs \cup { "http://Site.COM" }

Inputs == InvalidInputs \cup ValidInputs

\* a validator that accepts every scheme
isWebUri_AnyScheme(u) == u \in ValidInputs \cup { "ftp://site.com/a" }

\* validUrl.isWebUri
isWebUri(u) == u \in ValidInputs

\* tld.getDomain: the registrable domain of the host, null when the host has
\* none (an IP address)
getDomain(u) ==
  CASE u = "http://short.ly/x"     -> "short.ly"
    [] u = "http://www.site.com/a" -> "site.com"
    [] u = "http://site.com/"      -> "site.com"
    [] u = "http://Site.COM"       -> "Site.COM"
    [] u = "http://other.org/b"    -> "other.org"
    [] OTHER                       -> NULL

-----------------------------------------------------------------------------
(* Domain policy *)

\* checkDomainList: true only if the list exists and the domain is in it
checkDomainList(domain, list) ==
  IF ~list.isNull
  THEN (IF arrIndexOf(list.items, domain) >= 0 THEN TRUE ELSE FALSE)
  ELSE FALSE

\* a policy that forgets the shortlist once a list is loaded
checkDomainLists_WhitelistOnly(d) ==
  IF SHORTLIST.isNull /\ WHITELIST.isNull THEN TRUE
  ELSE checkDomainList(d, WHITELIST)

\* checkDomainLists: both lists, permissive only when neither is loaded
\* (a loaded array is truthy even when it is empty)
checkDomainLists(d) ==
  LET defaultInList == IF ~SHORTLIST.isNull THEN FALSE
                       ELSE IF ~WHITELIST.isNull THEN FALSE
                       ELSE TRUE
  IN  IF ~defaultInList
      THEN checkDomainList(d, SHORTLIST) \/ checkDomainList(d, WHITELIST)
      ELSE defaultInList

\* domains handed to checkDomainLists: fetchCanonical passes the lower-cased
\* registrable domain of the input URL, or null
PolicyDomains == { NULL, "site.com", "other.org", "short.ly", "nope.net" }

\* var inList = checkDomainLists(d)
applyCheckDomainLists ==
  /\ polOut = <<>>
  /\ polOut' = <<checkDomainLists(polArg)>>
  /\ UNCHANGED <<listVars, pipeVars, masterVars, polArg, loadVars>>

-----------------------------------------------------------------------------
(* Upstream answers *)

HeadErrors   == { "ETIMEDOUT", "ECONNREFUSED" }
StatusCodes  == { 200, 400, 500 }
\* content-type headers; NULL: the header is absent
ContentTypes == { NULL, "Text/HTML; q", "image/png" }
\* content-length headers; 0: the header is absent
Sizes        == { 0, MAXSIZE, MAXSIZE + 1 }
\* href of link[rel="canonical"] and content of meta[property="og:url"]:
\* NULL when there is no such element or attribute, "" when it is empty
CanonAttrs   == { NULL, "", "http://site.com/canon" }
OgAttrs      == { NULL, "", "http://site.com/og" }

NoRes == [kind |-> "none", err |-> NULL, code |-> 0, ctype |-> NULL, size |-> 0,
          href |-> NULL, canon |-> NULL, og |-> NULL]

HeadOutcomes ==
  { [NoRes EXCEPT !.kind = "err", !.err = e] : e \in HeadErrors }
  \cup
  { [NoRes EXCEPT !.kind = "ok", !.code = c, !.ctype = t, !.size = s, !.href = h] :
      c \in StatusCodes, t \in ContentTypes, s \in Sizes, h \in Hrefs }

GetOutcomes ==
  { [NoRes EXCEPT !.kind = "err", !.err = e] : e \in HeadErrors }
  \cup
  { [NoRes EXCEPT !.kind = "ok", !.href = h, !.canon = c, !.og = o] :
      h \in Hrefs, c \in CanonAttrs, o \in OgAttrs }

-----------------------------------------------------------------------------
(* The pipeline of one request.  Every handler ends right after its call   *)
(* of reply(), so at pc = "done" `data` is the body that was sent.         *)

\* a result record that starts out as a success
newData_ErrorFalse(u) ==
  [url |-> u, url_retrieved |-> NULL, method |-> NULL, reason |-> NULL,
   error |-> FALSE, get_attempt |-> FALSE, canonical |-> FALSE,
   tld |-> NULL, tld_retrieved |-> NULL, code |-> 0, ctype |-> NULL, size |-> 0]

\* fetchCanonical: the fresh data object
newData(u) ==
  [url |-> u, url_retrieved |-> NULL, method |-> NULL, reason |-> NULL,
   error |-> TRUE, get_attempt |-> FALSE, canonical |-> FALSE,
   tld |-> NULL, tld_retrieved |-> NULL, code |-> 0, ctype |-> NULL, size |-> 0]

\* a check that forgets the domain that could not be extracted
originRejected_NoNullCheck(il, d) == ~il

\* fetchCanonical: if (!inList || !d)
originRejected(il, d) == ~il \/ ~truthy(d)

\* fetchCanonical up to its reply or its call of headRequest
fetchCanonicalCheck(u) ==
  LET d0 == newData(u)
  IN  IF ~isWebUri(u)
      THEN [data |-> [d0 EXCEPT !.reason = "invalid url", !.method = "url validation"],
            next |-> "reply"]
      ELSE LET g  == getDomain(u)
               d  == IF truthy(g) THEN trim(toLowerCase(g)) ELSE g
               d1 == [d0 EXCEPT !.tld = d]
               inList0 == checkDomainLists(d)
           IN  IF originRejected(inList0, d)
               THEN [data |-> [d1 EXCEPT !.reason = "domain not in lists"],
                     next |-> "reply"]
               ELSE [data |-> d1, next |-> "head"]

\* a check that takes over the result fetchCanonical got for the origin
originInList_FromLists(t) == checkDomainLists(t)

\* headRequest callback, no (new) url: inList = checkDomainList(data.tld, WHITELIST)
originInList(t) == checkDomainList(t, WHITELIST)

\* headRequest callback, "Process HEAD Reply": the fields taken from the
\* answer and the whitelist check of the final domain
headProcess(d, u, res) ==
  LET ct == IF truthy(res.ctype) THEN toLowerCase(res.ctype) ELSE NULL
      d1 == [d EXCEPT !.method = "original", !.code = res.code, !.ctype = ct,
                      !.size = res.size, !.url_retrieved = res.href]
  IN  IF ~truthy(d1.url_retrieved) \/ d1.url_retrieved = u
      THEN [data   |-> [d1 EXCEPT !.url_retrieved = u],
            inList |-> originInList(d1.tld)]
      ELSE LET t  == getDomain(d1.url_retrieved)
               d2 == [d1 EXCEPT !.method = "redirect", !.tld_retrieved = t]
           IN  IF truthy(t)
               THEN LET t2 == trim(toLowerCase(t))
                    IN  [data   |-> [d2 EXCEPT !.tld_retrieved = t2],
                         inList |-> checkDomainList(t2, WHITELIST)]
               ELSE [data |-> d2, inList |-> FALSE]

\* a terminal reply that names its reason as the method too, the way the
\* reply to an invalid URL does
terminal_SetsMethod(d, reason) ==
  [data |-> [d EXCEPT !.reason = reason, !.method = reason], next |-> "reply"]

\* a terminal reply with its reason
terminal(d, reason) == [data |-> [d EXCEPT !.reason = reason], next |-> "reply"]

\* a size check with the comparison turned round
contentTooBig_Reversed(size) == size < MAXSIZE

\* headRequest callback, check 4: data.size > MAXSIZE
contentTooBig(size) == size > MAXSIZE

\* the checks with the size check moved in front of the status check
headReplies_SizeFirst(d, il, get) ==
  IF contentTooBig(d.size)
  THEN terminal(d, "content to big: " \o ToString(d.size))
  ELSE IF d.code >= 400
  THEN terminal(d, "HTTP error: " \o ToString(d.code))
  ELSE IF truthy(d.ctype) /\ strIndexOf(d.ctype, "text/html") < 0
  THEN terminal(d, "bad content type: " \o d.ctype)
  ELSE IF ~truthy(d.ctype)
  THEN terminal(d, "no content type:")
  ELSE IF ~il
  THEN terminal(d, "domain not in whitelist")
  ELSE IF ~get
  THEN terminal(d, "content fetching disabled")
  ELSE [data |-> d, next |-> "fetch"]

\* headRequest callback, "Replies": checks 1 to 5 in their order
headReplies(d, il, get) ==
  IF d.code >= 400
  THEN terminal(d, "HTTP error: " \o ToString(d.code))
  ELSE IF truthy(d.ctype) /\ strIndexOf(d.ctype, "text/html") < 0
  THEN terminal(d, "bad content type: " \o d.ctype)
  ELSE IF ~truthy(d.ctype)
  THEN terminal(d, "no content type:")
  ELSE IF contentTooBig(d.size)
  THEN terminal(d, "content to big: " \o ToString(d.size))
  ELSE IF ~il
  THEN terminal(d, "domain not in whitelist")
  ELSE IF ~get
  THEN terminal(d, "content fetching disabled")
  ELSE [data |-> d, next |-> "fetch"]

\* a GET error handler that leaves the reason unset
fetchError_NoReason(d, err) == [data |-> [d EXCEPT !.error = TRUE], next |-> "reply"]

\* fetchContent callback, if (err): no valid GET reply
fetchError(d, err) ==
  [data |-> [d EXCEPT !.reason = err, !.error = TRUE], next |-> "reply"]

\* an extraction that looks for og:url first
extract_OgFirst(d, canon_url, og_url) ==
  IF truthy(og_url)
  THEN [data |-> [d EXCEPT !.url_retrieved = og_url, !.reason = "opengraph",
                           !.method = "opengraph", !.canonical = TRUE],
        next |-> "reply"]
  ELSE IF truthy(canon_url)
  THEN [data |-> [d EXCEPT !.url_retrieved = canon_url, !.reason = "canonical",
                           !.method = "canonical", !.canonical = TRUE],
        next |-> "reply"]
  ELSE terminal(d, "no canonical")

\* fetchContent callback: the canonical link first, then og:url, then neither
extract(d, canon_url, og_url) ==
  IF truthy(canon_url)
  THEN [data |-> [d EXCEPT !.url_retrieved = canon_url, !.reason = "canonical",
                           !.method = "canonical", !.canonical = TRUE],
        next |-> "reply"]
  ELSE IF truthy(og_url)
  THEN [data |-> [d EXCEPT !.url_retrieved = og_url, !.reason = "opengraph",
                           !.method = "opengraph", !.canonical = TRUE],
        next |-> "reply"]
  ELSE terminal(d, "no canonical")

\* fetchContent callback: "throw" is the TypeError of
\* tld.getDomain(currentUrl).toLowerCase() when getDomain returns null
\* (cheerio.load never returns null, so that branch is left out)
fetchProcess(d, res) ==
  IF res.kind = "err"
  THEN fetchError(d, res.err)
  ELSE
    LET d1         == [d EXCEPT !.error = FALSE]
        currentUrl == res.href
        redirected == truthy(currentUrl) /\ currentUrl # d1.url_retrieved
    IN  IF redirected /\ ~truthy(getDomain(currentUrl))
        THEN [data |-> [d1 EXCEPT !.url_retrieved = currentUrl], next |-> "throw"]
        ELSE
          LET d2 == IF redirected
                    THEN [d1 EXCEPT !.url_retrieved = currentUrl,
                                    !.tld_retrieved = trim(toLowerCase(getDomain(currentUrl))),
                                    !.method = "redirect"]
                    ELSE d1
              il == IF redirected /\ ~WHITELIST.isNull
                    THEN checkDomainList(d2.tld_retrieved, WHITELIST)
                    ELSE TRUE
          IN  IF ~il
              THEN [data |-> d2, next |-> "reply"]
              ELSE extract(d2, res.canon, res.og)

-----------------------------------------------------------------------------
(* Actions of the worker *)

\* startServerWorker: loadFilterLists, then listen.  An exception of
\* loadFilterLists is not caught: the worker dies before its server listens
startServerWorker ==
  /\ pc = "boot"
  /\ \E wf \in WhitelistFiles, sf \in ShortlistFiles, noget \in BOOLEAN :
       \E r \in {loadFilterLists(wf, sf)} :
           /\ whitelistFile' = wf
           /\ shortlistFile' = sf
           /\ WHITELIST' = r.WHITELIST
           /\ SHORTLIST' = r.SHORTLIST
           /\ doGet' = ~noget
           /\ pc' = IF r.throws THEN "crashed" ELSE "idle"
  /\ UNCHANGED <<inList, data, replies, headIssued, getIssued, headRes, getRes,
                 served, closedAt, masterVars, polVars, loadVars>>

\* the http server's request handler: fetchCanonical(u, doGet, res)
fetchCanonical ==
  /\ pc \in {"idle", "done"}
  /\ served < MaxRequests
  /\ \E u \in Inputs :
       \E r \in {fetchCanonicalCheck(u)} :
           /\ data' = r.data
           /\ replies' = IF r.next = "reply" THEN 1 ELSE 0
           /\ headIssued' = IF r.next = "head" THEN 1 ELSE 0
           /\ pc' = IF r.next = "reply" THEN "done" ELSE "head"
  /\ getIssued' = 0
  /\ headRes' = NoRes
  /\ getRes' = NoRes
  /\ served' = served + 1
  /\ closedAt' = "no"
  /\ UNCHANGED <<listVars, doGet, inList, masterVars, polVars, loadVars>>

\* a check that reads inList as it was before this callback assigned it
inListAtCheck_Stale(before, after) == before

\* `if (!inList)`: the callback reads the global after it has assigned it
inListAtCheck(before, after) == after

\* the callback of the HEAD request
headRequestCallback ==
  /\ pc = "head"
  /\ \E res \in HeadOutcomes :
       /\ headRes' = res
       /\ IF res.kind = "err"
          THEN /\ data' = [data EXCEPT !.reason = res.err]
               /\ replies' = replies + 1
               /\ pc' = "done"
               /\ UNCHANGED <<inList, getIssued>>
          ELSE \E p \in {headProcess(data, data.url, res)} :
               /\ inList' = p.inList
               /\ \E r \in {headReplies(p.data, inListAtCheck(inList, inList'),
                                        doGet)} :
                      IF r.next = "reply"
                      THEN /\ data' = r.data
                           /\ replies' = replies + 1
                           /\ pc' = "done"
                           /\ UNCHANGED getIssued
                      ELSE \* fetchContent(data.url_retrieved, data, reqres)
                           /\ data' = [r.data EXCEPT !.get_attempt = TRUE]
                           /\ getIssued' = getIssued + 1
                           /\ pc' = "get"
                           /\ UNCHANGED replies
  /\ UNCHANGED <<listVars, doGet, headIssued, getRes, served, closedAt,
                 masterVars, polVars, loadVars>>

\* the callback of the GET request
fetchContentCallback ==
  /\ pc = "get"
  /\ \E res \in GetOutcomes :
       \E r \in {fetchProcess(data, res)} :
           /\ getRes' = res
           /\ data' = r.data
           /\ replies' = IF r.next = "reply" THEN replies + 1 ELSE replies
           /\ pc' = IF r.next = "reply" THEN "done" ELSE "crashed"
  /\ UNCHANGED <<listVars, doGet, inList, headIssued, getIssued, headRes,
                 served, closedAt, masterVars, polVars, loadVars>>

\* the HEAD callback of another request in flight in this worker, as far as
\* it touches what the requests share: it assigns the global inList, from the
\* whitelist check of its own final domain or false for an invalid one
otherHeadCallback ==
  /\ pc \in {"idle", "head", "get", "done"}
  /\ \E b \in { checkDomainList(d, WHITELIST) : d \in PolicyDomains } \cup {FALSE} :
       inList' = b
  /\ UNCHANGED <<listVars, doGet, pc, data, replies, headIssued, getIssued,
                 headRes, getRes, served, closedAt, masterVars, polVars,
                 loadVars>>

\* a close handler that drops the request
onClose_Abort ==
  /\ pc \in {"head", "get"}
  /\ closedAt = "no"
  /\ closedAt' = pc
  /\ pc' = "done"
  /\ UNCHANGED <<listVars, doGet, inList, data, replies, headIssued,
                 getIssued, headRes, getRes, served, masterVars, polVars,
                 loadVars>>

\* req.on('close'): the client closed the connection while its request is in
\* flight; the handler logs a warning
onClose ==
  /\ pc \in {"head", "get"}
  /\ closedAt = "no"
  /\ closedAt' = pc
  /\ UNCHANGED <<listVars, doGet, inList, pc, data, replies, headIssued,
                 getIssued, headRes, getRes, served, masterVars, polVars,
                 loadVars>>

-----------------------------------------------------------------------------
(* Actions of the master *)

\* startServerMaster: fork numCpus workers
startServerMaster ==
  /\ ~started
  /\ started' = TRUE
  /\ workers' = 1..numCpus
  /\ nextPid' = numCpus + 1
  /\ UNCHANGED <<listening, LISTENERS, exitQ, readyLogged, listVars, pipeVars, polVars, loadVars>>

\* a worker's server starts listening; cluster.on('listening')
onListening ==
  /\ \E w \in workers \ listening :
       /\ listening' = listening \cup {w}
       /\ LISTENERS' = Append(LISTENERS, w)
       /\ readyLogged' = IF Len(LISTENERS) + 1 = numCpus
                         THEN readyLogged + 1 ELSE readyLogged
  /\ UNCHANGED <<started, workers, exitQ, nextPid, listVars, pipeVars, polVars, loadVars>>

\* a worker process ends (crash, kill or normal exit): its 'exit' event is
\* emitted to the master
workerExit ==
  /\ nextPid + Len(exitQ) < numCpus + 1 + MaxExits
  /\ \E w \in workers :
       /\ workers' = workers \ {w}
       /\ listening' = listening \ {w}
       /\ exitQ' = Append(exitQ, w)
  /\ UNCHANGED <<started, LISTENERS, nextPid, readyLogged, listVars, pipeVars, polVars, loadVars>>

\* LISTENERS.splice(LISTENERS.indexOf(pid))
spliceListeners(arr, pid) == arrSplice(arr, arrIndexOf(arr, pid))

\* an exit handler that forks nothing
onExit_NoFork ==
  /\ exitQ # <<>>
  /\ LISTENERS' = spliceListeners(LISTENERS, Head(exitQ))
  /\ exitQ' = Tail(exitQ)
  /\ UNCHANGED <<started, workers, nextPid, listening, readyLogged, listVars,
                 pipeVars, polVars, loadVars>>

\* cluster.on('exit'): drop the pid from LISTENERS, fork a new worker
onExit ==
  /\ exitQ # <<>>
  /\ LISTENERS' = spliceListeners(LISTENERS, Head(exitQ))
  /\ workers' = workers \cup {nextPid}
  /\ nextPid' = nextPid + 1
  /\ exitQ' = Tail(exitQ)
  /\ UNCHANGED <<started, listening, readyLogged, listVars, pipeVars, polVars, loadVars>>

-----------------------------------------------------------------------------
(* Specifications *)

InitLists ==
  /\ WHITELIST = NoList
  /\ SHORTLIST = NoList
  /\ whitelistFile = MissingFile
  /\ shortlistFile = MissingFile

InitPipe ==
  /\ doGet = TRUE
  /\ inList = FALSE
  /\ pc = "boot"
  /\ data = newData(NULL)
  /\ replies = 0
  /\ headIssued = 0
  /\ getIssued = 0
  /\ headRes = NoRes
  /\ getRes = NoRes
  /\ served = 0
  /\ closedAt = "no"

InitMaster ==
  /\ started = FALSE
  /\ workers = {}
  /\ listening = {}
  /\ LISTENERS = <<>>
  /\ exitQ = <<>>
  /\ nextPid = 1
  /\ readyLogged = 0

InitPolicy ==
  /\ polArg = NULL
  /\ polOut = <<>>

InitLoader ==
  /\ loadArg = ""
  /\ loadOut = <<>>

Init == InitLists /\ InitPipe /\ InitMaster /\ InitPolicy /\ InitLoader

Next ==
  \/ startServerWorker
  \/ fetchCanonical
  \/ headRequestCallback
  \/ fetchContentCallback

Spec == Init /\ [][Next]_vars

\* the worker with other requests in flight and clients that close early
NextConc ==
  \/ startServerWorker
  \/ fetchCanonical
  \/ headRequestCallback
  \/ fetchContentCallback
  \/ otherHeadCallback
  \/ onClose

SpecConc == Init /\ [][NextConc]_vars

NextMaster ==
  \/ startServerMaster
  \/ onListening
  \/ workerExit
  \/ onExit

SpecMaster == Init /\ [][NextMaster]_vars

\* every domain against every pair of lists
InitAnyLists ==
  /\ WHITELIST \in WhitelistChoices
  /\ SHORTLIST \in ShortlistChoices
  /\ whitelistFile = MissingFile
  /\ shortlistFile = MissingFile
  /\ polArg \in PolicyDomains
  /\ polOut = <<>>
  /\ InitPipe
  /\ InitMaster
  /\ InitLoader

NextPolicy == applyCheckDomainLists

SpecPolicy == InitAnyLists /\ [][NextPolicy]_vars

\* every text of up to MaxLines lines
InitAnyText ==
  /\ loadArg \in LoaderTexts
  /\ loadOut = <<>>
  /\ InitLists
  /\ InitPipe
  /\ InitMaster
  /\ InitPolicy

NextLoader == applyLoadDomainList

SpecLoader == InitAnyText /\ [][NextLoader]_vars

-----------------------------------------------------------------------------
(* Properties of the pipeline (Spec) *)

\* a request has been accepted and its pipeline has come to its end
Ended == served > 0 /\ pc \in {"done", "crashed"}

\* the reference policy: permissive without lists, membership otherwise
RefPermits(d, wl, sl) ==
  IF wl.isNull /\ sl.isNull THEN TRUE
  ELSE d \in (Range(wl.items) \cup Range(sl.items))

\* the content type names HTML
IsHtml(ct) == \E i \in 1..(Len(ct) - 8) : SubSeq(ct, i, i + 8) = "text/html"

\* the reply came out of the HEAD callback's checks
HeadStage == served > 0 /\ headRes.kind = "ok" /\ getRes.kind = "none"

\* the domain of the URL the HEAD ended on
HeadFinalDomain ==
  IF headRes.href = data.url THEN data.tld ELSE getDomain(headRes.href)

RuleA == headRes.code >= 400
RuleB == headRes.ctype # NULL /\ ~IsHtml(toLowerCase(headRes.ctype))
RuleC == headRes.ctype = NULL
RuleD == headRes.size > MAXSIZE
RuleE == WHITELIST.isNull \/ HeadFinalDomain \notin Range(WHITELIST.items)
RuleF == ~doGet

\* C1: every request handed to fetchCanonical is answered by exactly one
\* reply(): never two, and none is missing once the pipeline has ended.
C1_ExactlyOneReply ==
  /\ replies <= 1
  /\ Ended => replies = 1

\* C2: an input that is no web URI (a missing url parameter included) gets
\* the single reply error=true, method "url validation", reason "invalid url",
\* url_retrieved=null, and no HEAD or GET is issued for it.
C2_InvalidUrl ==
  (served > 0 /\ data.url \in InvalidInputs) =>
    /\ pc = "done"
    /\ replies = 1
    /\ data.error = TRUE
    /\ data.method = "url validation"
    /\ data.reason = "invalid url"
    /\ data.url_retrieved = NULL
    /\ headIssued = 0
    /\ getIssued = 0

C2_Witness ==
  /\ served > 0
  /\ pc = "done"
  /\ data.url = NULL
  /\ data.reason = "invalid url"

\* C3: a valid URL whose origin domain cannot be extracted, or is in neither
\* list while a list is configured, is answered "domain not in lists" with no
\* request issued; a HEAD is issued only for an extracted, permitted domain.
C3_OriginRejected ==
  (served > 0 /\ data.url \in ValidInputs) =>
    /\ (data.tld = NULL \/ ~RefPermits(data.tld, WHITELIST, SHORTLIST)) =>
         /\ pc = "done"
         /\ replies = 1
         /\ data.reason = "domain not in lists"
         /\ headIssued = 0
         /\ getIssued = 0
    /\ headIssued > 0 =>
         /\ data.tld # NULL
         /\ RefPermits(data.tld, WHITELIST, SHORTLIST)

C3_Witness ==
  /\ served > 0
  /\ pc = "done"
  /\ data.tld = "other.org"
  /\ ~SHORTLIST.isNull
  /\ data.reason = "domain not in lists"
  /\ headIssued = 0

\* C4: checkDomainLists(d) is the reference policy for every domain and every
\* pair of lists: true for every d when neither list is configured, and
\* otherwise true exactly when d is in the shortlist or in the whitelist.
C4_PolicyMatchesReference ==
  polOut # <<>> => polOut = <<RefPermits(polArg, WHITELIST, SHORTLIST)>>

C4_Witness ==
  /\ polOut = <<FALSE>>
  /\ polArg = "nope.net"
  /\ WHITELIST.isNull
  /\ SHORTLIST = List(<<>>)

\* C5: after a successful HEAD the reply's reason is that of the first rule
\* that holds, in the order (a) status >= 400, (b) content type without
\* text/html, (c) no content type, (d) content length above the maximum,
\* (e) final domain not in the whitelist, (f) fetching not requested; when
\* none holds the pipeline goes on to the GET.
C5_FirstRuleWins ==
  HeadStage =>
    IF RuleA THEN pc = "done" /\ data.reason = "HTTP error: " \o ToString(headRes.code)
    ELSE IF RuleB THEN pc = "done" /\ data.reason = "bad content type: " \o data.ctype
    ELSE IF RuleC THEN pc = "done" /\ data.reason = "no content type:"
    ELSE IF RuleD THEN pc = "done" /\ data.reason = "content to big: " \o ToString(headRes.size)
    ELSE IF RuleE THEN pc = "done" /\ data.reason = "domain not in whitelist"
    ELSE IF RuleF THEN pc = "done" /\ data.reason = "content fetching disabled"
    ELSE pc = "get"

C5_Witness ==
  /\ HeadStage
  /\ pc = "done"
  /\ headRes.code = 500
  /\ headRes.size > MAXSIZE
  /\ data.reason = "HTTP error: 500"

\* C6: a GET is issued, and get_attempt set, only after a successful HEAD on
\* which none of the rules a-f held; every reply made at or before the HEAD's
\* checks has get_attempt=false, and an oversized content length that reaches
\* rule d is answered "content to big: <size>" without a GET.
C6_GetOnlyAfterChecks ==
  /\ data.get_attempt = (getIssued > 0)
  /\ getIssued > 0 =>
       /\ headRes.kind = "ok"
       /\ headRes.code < 400
       /\ headRes.ctype # NULL
       /\ IsHtml(toLowerCase(headRes.ctype))
       /\ headRes.size <= MAXSIZE
       /\ ~WHITELIST.isNull
       /\ getDomain(headRes.href) \in Range(WHITELIST.items)
       /\ doGet
  /\ (served > 0 /\ pc = "done" /\ getRes.kind = "none") =>
       /\ data.get_attempt = FALSE
       /\ getIssued = 0
  /\ (HeadStage /\ ~RuleA /\ ~RuleB /\ ~RuleC /\ RuleD) =>
       /\ data.reason = "content to big: " \o ToString(headRes.size)
       /\ data.get_attempt = FALSE

C6_Witness ==
  /\ HeadStage
  /\ pc = "done"
  /\ headRes.size = MAXSIZE + 1
  /\ data.reason = "content to big: " \o ToString(MAXSIZE + 1)
  /\ data.get_attempt = FALSE

\* the GET ended on the URL the HEAD had ended on, or on a whitelisted domain
GetPassesWhitelist ==
  \/ getRes.href = headRes.href
  \/ getDomain(getRes.href) \in Range(WHITELIST.items)

\* C7: after a successful GET whose final domain passes the whitelist check
\* the reply follows the document: a canonical href (non-empty) gives method
\* "canonical", canonical=true, error=false and url_retrieved = the href, also
\* when og:url is there; else an og:url content (non-empty) gives method
\* "opengraph" likewise; else reason "no canonical", error=false,
\* canonical=false and url_retrieved stays the effective URL.
C7_ExtractFollowsDocument ==
  (served > 0 /\ getRes.kind = "ok" /\ GetPassesWhitelist) =>
    /\ pc = "done"
    /\ replies = 1
    /\ data.error = FALSE
    /\ IF getRes.canon \notin {NULL, ""}
       THEN /\ data.method = "canonical"
            /\ data.canonical = TRUE
            /\ data.url_retrieved = getRes.canon
       ELSE IF getRes.og \notin {NULL, ""}
       THEN /\ data.method = "opengraph"
            /\ data.canonical = TRUE
            /\ data.url_retrieved = getRes.og
       ELSE /\ data.reason = "no canonical"
            /\ data.canonical = FALSE
            /\ data.url_retrieved = getRes.href

C7_Witness ==
  /\ pc = "done"
  /\ getRes.kind = "ok"
  /\ getRes.canon = "http://site.com/canon"
  /\ getRes.og = "http://site.com/og"
  /\ data.method = "canonical"
  /\ data.url_retrieved = "http://site.com/canon"

\* C8: no retries.  A request issues at most one HEAD and at most one GET,
\* the GET only after the HEAD succeeded; a HEAD or GET that fails is
\* answered at once with the error as reason and error=true, and nothing
\* more is issued.
C8_NoRetries ==
  /\ headIssued <= 1
  /\ getIssued <= 1
  /\ getIssued > 0 => (headIssued = 1 /\ headRes.kind = "ok")
  /\ pc = "head" => (headIssued = 1 /\ getIssued = 0 /\ replies = 0)
  /\ pc = "get" => (getIssued = 1 /\ replies = 0)
  /\ headRes.kind = "err" =>
       /\ pc = "done"
       /\ replies = 1
       /\ data.reason = headRes.err
       /\ data.error = TRUE
       /\ headIssued = 1
       /\ getIssued = 0
  /\ getRes.kind = "err" =>
       /\ pc = "done"
       /\ replies = 1
       /\ data.reason = getRes.err
       /\ data.error = TRUE
       /\ headIssued = 1
       /\ getIssued = 1

C8_Witness ==
  /\ pc = "done"
  /\ getRes.kind = "err"
  /\ data.reason = "ETIMEDOUT"
  /\ data.error = TRUE

-----------------------------------------------------------------------------
(* Properties of the master (SpecMaster) *)

\* C9: the pool size is kept.  The master forks numCpus workers at startup
\* and one more for every exit it handles, whether or not the worker had
\* reported listening: live workers plus unhandled exits are always numCpus,
\* so with every exit handled numCpus workers are alive.
C9_PoolSizeKept ==
  started =>
    /\ Cardinality(workers) + Len(exitQ) = numCpus
    /\ exitQ = <<>> => Cardinality(workers) = numCpus

C9_Witness ==
  /\ started
  /\ exitQ = <<>>
  /\ nextPid = numCpus + 1 + MaxExits
  /\ listening = {}
  /\ Cardinality(workers) = numCpus

\* C10: an exit removes exactly the exited worker from the listening set:
\* with every exit handled, LISTENERS holds exactly the pids of the live
\* workers that have reported listening.
C10_ListenersExact ==
  exitQ = <<>> => Range(LISTENERS) = listening

\* C11: 'All Workers listening' is logged when, and only when, a listening
\* event brings the number of live workers that have reported listening to
\* numCpus.  Stated for the steps taken with every exit handled, where the
\* master knows of every death: the log counter moves in such a step exactly
\* when the step is a listening event that makes the listening set numCpus
\* large.
C11_ReadyExactly ==
  [][ exitQ = <<>> =>
        ( (readyLogged' # readyLogged)
            <=> ( /\ Cardinality(listening') > Cardinality(listening)
                  /\ Cardinality(listening') = numCpus ) ) ]_vars

-----------------------------------------------------------------------------
(* Properties of the worker's startup (Spec) *)

\* C12: list loading fails soft.  Whatever is found at the two configured
\* paths (a readable file, no file, an unreadable file), startServerWorker
\* comes through loadFilterLists without an exception and goes on to listen,
\* and a list is null exactly when its file is missing or unreadable.
C12_StartupFailsSoft ==
  pc # "boot" =>
    /\ served = 0 => pc # "crashed"
    /\ WHITELIST.isNull <=> whitelistFile.state # "ok"
    /\ SHORTLIST.isNull <=> shortlistFile.state # "ok"

-----------------------------------------------------------------------------
(* Further properties of the pipeline (Spec) *)

\* C13: no condition of a request crashes the worker: once the worker has
\* accepted a request, no callback of the pipeline ends in an uncaught
\* exception, whatever the upstream answers.
C13_NoRequestCrash ==
  served > 0 => pc # "crashed"

-----------------------------------------------------------------------------
(* Properties of the worker under concurrency (SpecConc) *)

\* the `data` a request for u is answered with when it runs alone in the
\* worker: its handlers applied one after the other to the upstream's answers
\* hres and gres, the check of inList reading what its own callback assigned
SoloReply(u, hres, gres) ==
  LET r0 == fetchCanonicalCheck(u)
  IN  IF r0.next = "reply" THEN r0.data
      ELSE IF hres.kind = "err" THEN [r0.data EXCEPT !.reason = hres.err]
      ELSE LET p == headProcess(r0.data, u, hres)
               r == headReplies(p.data, p.inList, doGet)
           IN  IF r.next = "reply" THEN r.data
               ELSE fetchProcess([r.data EXCEPT !.get_attempt = TRUE], gres).data

\* C14: requests are isolated and deterministic.  However the callbacks of
\* the other requests in flight interleave with its own (each assigning the
\* shared global inList), a request is answered with the method,
\* url_retrieved, reason, error, get_attempt and canonical it gets when it
\* runs alone against the same upstream answers; the reply is a function of
\* the URL and those answers, so the same URL resolved twice against an
\* unchanged upstream gets the same method and url_retrieved.
C14_Isolated ==
  (served > 0 /\ pc = "done" /\ replies = 1) =>
    LET solo == SoloReply(data.url, headRes, getRes)
    IN  /\ data.method = solo.method
        /\ data.url_retrieved = solo.url_retrieved
        /\ data.reason = solo.reason
        /\ data.error = solo.error
        /\ data.get_attempt = solo.get_attempt
        /\ data.canonical = solo.canonical

\* the request's own HEAD callback left inList true and went on to the GET;
\* another request's callback has set it to false since; the reply is the
\* canonical URL all the same
C14_Witness ==
  /\ pc = "done"
  /\ replies = 1
  /\ getRes.kind = "ok"
  /\ data.method = "canonical"
  /\ inList = FALSE

-----------------------------------------------------------------------------
(* Properties of the list loader (SpecLoader) *)

\* a line counts once lower-cased and trimmed: blank when nothing is left,
\* a comment when what is left starts with '#'
IsEntry(n) == n # "" /\ SubSeq(n, 1, 1) # "#"

\* C15: loadDomainList normalizes any readable file.  Every entry of the
\* list it returns is lower-case and trimmed, none is empty, none starts with
\* '#', no entry occurs twice; every line that is neither blank nor a comment
\* is in the list in its normalized form and nothing else is; a file that is
\* already a normalized list (one entry per line) is returned line by line,
\* unchanged.
C15_LoaderNormalizes ==
  loadOut # <<>> =>
    LET out   == loadOut[1]
        lines == split(loadArg)
        norm  == { normalizeLine(lines[k]) : k \in 1..Len(lines) }
    IN  /\ \A i \in 1..Len(out) :
             /\ out[i] = toLowerCase(out[i])
             /\ out[i] = trim(out[i])
             /\ IsEntry(out[i])
        /\ \A i, j \in 1..Len(out) : out[i] = out[j] => i = j
        /\ Range(out) = { n \in norm : IsEntry(n) }
        /\ ( /\ \A k \in 1..Len(lines) :
                  lines[k] = normalizeLine(lines[k]) /\ IsEntry(lines[k])
             /\ \A k, l \in 1..Len(lines) : lines[k] = lines[l] => k = l )
           => out = lines

\* a padded mixed-case name, the same name again, and a comment: one entry
C15_Witness ==
  /\ loadArg = " Site.COM \nsite.com\n# note"
  /\ loadOut = << <<"site.com">> >>

-----------------------------------------------------------------------------
(* Properties of the reply's fields (Spec) *)

\* the resolution methods and their order: none, original, redirect, then
\* canonical or opengraph; "url validation" stands apart, after all of them
MethodSet == { NULL, "original", "redirect", "canonical", "opengraph" }

MethodRank(m) ==
  CASE m = NULL        -> 0
    [] m = "original"  -> 1
    [] m = "redirect"  -> 2
    [] m = "canonical" -> 3
    [] m = "opengraph" -> 3
    [] OTHER           -> 4

\* C16 as stated: at every point of a request's pipeline method is one of
\* none, original, redirect, canonical, opengraph, and every step of the
\* request leaves it where it is or moves it forward in that order.
C16_MethodMonotonic ==
  [][ /\ data.method' \in MethodSet
      /\ served' = served => MethodRank(data.method') >= MethodRank(data.method)
    ]_vars

\* C16 amended: method is one of none, original, redirect, canonical,
\* opengraph or "url validation"; "url validation" is what the request of an
\* input that is no web URI starts and ends with (set together with the
\* reason "invalid url", in the step that accepts the request), and no other
\* request ever has it; within a request method never moves backward in
\* none -> original -> redirect -> canonical | opengraph.
C16_MethodMonotonicOrValidation ==
  [][ /\ data.method' \in MethodSet \cup { "url validation" }
      /\ data.method' = "url validation" <=>
           (served' > 0 /\ ~isWebUri(data.url'))
      /\ (data.method' = "url validation" /\ served' # served) =>
           (pc' = "done" /\ data.reason' = "invalid url")
      /\ served' = served => MethodRank(data.method') >= MethodRank(data.method)
    ]_vars

\* a request that went through original and redirect (the HEAD was
\* redirected) and ended with the page's OpenGraph URL
C16_Witness ==
  /\ pc = "done"
  /\ headRes.kind = "ok"
  /\ headRes.href # data.url
  /\ getRes.kind = "ok"
  /\ data.method = "opengraph"

\* the HEAD did not move the request: no effective URL, or the input URL
HeadNotRedirected == ~truthy(headRes.href) \/ headRes.href = data.url

\* the domain is on the loaded whitelist
OnWhitelist(t) == ~WHITELIST.isNull /\ t \in Range(WHITELIST.items)

\* C17 as stated: a request that was let through to the HEAD (its origin
\* passed the check of the lists: shortlist, whitelist or no list at all)
\* and was not redirected is never answered "domain not in whitelist".
C17_OriginResultReused ==
  (served > 0 /\ headRes.kind = "ok" /\ HeadNotRedirected) =>
    data.reason # "domain not in whitelist"

\* C17 amended: when the HEAD leaves the URL as it is, rule (e) checks the
\* origin domain against the whitelist alone: the request keeps method
\* "original" and, rules (a)-(d) not applying, is answered "domain not in
\* whitelist" exactly when its origin is not on a loaded whitelist, also
\* when the origin was let in by the shortlist or for want of any list.
\* When the URL differs, method becomes "redirect" and the same holds of the
\* domain of the new URL (a URL without a domain counting as not listed).
C17_FinalDomainOnWhitelist ==
  (served > 0 /\ headRes.kind = "ok") =>
    LET final == IF HeadNotRedirected THEN data.tld
                 ELSE getDomain(headRes.href)
        rulesAtoD == RuleA \/ RuleB \/ RuleC \/ RuleD
    IN  /\ data.reason = "domain not in whitelist" =>
             (~rulesAtoD /\ ~OnWhitelist(final) /\ pc = "done")
        /\ (~rulesAtoD /\ ~OnWhitelist(final)) =>
             (data.reason = "domain not in whitelist" /\ pc = "done")
        /\ getRes.kind = "none" =>
             data.method = (IF HeadNotRedirected THEN "original" ELSE "redirect")

\* an origin on the shortlist only, not redirected, clean HEAD: refused
C17_Witness ==
  /\ pc = "done"
  /\ headRes.kind = "ok"
  /\ HeadNotRedirected
  /\ ~SHORTLIST.isNull
  /\ data.tld \in Range(SHORTLIST.items)
  /\ ~WHITELIST.isNull
  /\ data.method = "original"
  /\ data.reason = "domain not in whitelist"

\* C18: a response body is retrieved only from a URL whose domain has
\* already been checked and found on the whitelist.  The body of a
\* successful GET comes from the URL the GET ended on (getRes.href), also
\* when the GET was redirected on its way.
C18_BodyOnlyFromWhitelisted ==
  getRes.kind = "ok" =>
    /\ truthy(getDomain(getRes.href))
    /\ OnWhitelist(trim(toLowerCase(getDomain(getRes.href))))

-----------------------------------------------------------------------------
(* Properties of the worker when clients close early (SpecConc) *)

\* C19: a client that closes its connection while its request is in flight
\* cancels and alters nothing.  The request stays where it was (HEAD or GET
\* pending, no reply yet), its HEAD and GET are issued once each and in that
\* order, and when the pipeline ends it has made its single reply from the
\* upstream's answers, with the fields it has without the close.
C19_CloseChangesNothing ==
  closedAt # "no" =>
    /\ pc \in {"head", "get", "done", "crashed"}
    /\ headIssued = 1
    /\ getIssued = (IF getRes.kind # "none" \/ pc = "get" THEN 1 ELSE 0)
    /\ closedAt = "get" => pc # "head"
    /\ pc \in {"head", "get"} => replies = 0
    /\ pc = "done" =>
         /\ replies = 1
         /\ headRes.kind # "none"
         /\ closedAt = "get" => getRes.kind # "none"
         /\ data = SoloReply(data.url, headRes, getRes)

\* the client closed while the HEAD was pending; the pipeline went on through
\* the GET and replied with the canonical URL
C19_Witness ==
  /\ closedAt = "head"
  /\ pc = "done"
  /\ replies = 1
  /\ getRes.kind = "ok"
  /\ data.method = "canonical"

-----------------------------------------------------------------------------
(* Properties of every reply (Spec) *)

\* C20: every reply carries a reason: whenever reply() has been called for
\* a request, the data it sent has a reason that is not null.
C20_ReasonAlwaysSet ==
  (served > 0 /\ replies > 0) => data.reason # NULL

\* C21: the flags of every reply are consistent.  error=false implies
\* get_attempt=true and a GET that completed (so every reply made without a
\* completed GET, "content fetching disabled" after a redirect included, has
\* error=true); canonical=true implies error=false, get_attempt=true, method
\* canonical or opengraph, and a url_retrieved that is not null.
C21_FlagsConsistent ==
  (served > 0 /\ replies > 0) =>
    /\ ~data.error => (data.get_attempt /\ getRes.kind = "ok")
    /\ getRes.kind # "ok" => data.error
    /\ data.canonical =>
         /\ ~data.error
         /\ data.get_attempt
         /\ data.method \in {"canonical", "opengraph"}
         /\ data.url_retrieved # NULL

\* a reply with canonical=true: the page's canonical link, after a GET
C21_Witness ==
  /\ pc = "done"
  /\ replies = 1
  /\ data.canonical
  /\ ~data.error
  /\ data.get_attempt
  /\ data.method = "canonical"
  /\ data.url_retrieved = getRes.canon

====
